---- MODULE Spec2Model ----
(***************************************************************************)
(* A model of ee-package-reporter: the inventory extraction pipeline       *)
(* (ee_inventory_to_xml.py) and the diff/report pipeline                   *)
(* (ee_xml_diff_report.py).                                                *)
(*                                                                         *)
(* Python strings are modelled as sequences of Unicode code points, so     *)
(* that comparison (str <), lower(), split(), strip() and the XML escaping *)
(* are computed as Python computes them.  Python dicts are modelled as     *)
(* insertion-ordered sequences of [k, v] pairs.                            *)
(***************************************************************************)
EXTENDS Integers, Sequences, FiniteSets, TLC

VARIABLES
    pc,          \* position of the operation that is running
    old_list,    \* diff_rpms / diff_simple_pkgs: first argument
    new_list,    \* diff_rpms / diff_simple_pkgs: second argument
    fwd,         \* the 4-tuple returned for (old_list, new_list)
    bwd,         \* the 4-tuple returned for (new_list, old_list)
    diff_tuple,  \* cell_html: the diff to render
    show_limit,  \* cell_html: the sample limit
    cell,        \* cell_html: the rendered cell
    entries,     \* build_report: the snapshots as passed in
    sorted_entries, \* build_report: entries after line 123
    idx,         \* build_report: the loop index
    rpm_cells,   \* build_report: the cells of the RPM row
    pip_cells,   \* build_report: the cells of the Python row
    col_cells,   \* build_report: the cells of the collections row
    n_diffs,     \* build_report: diffs computed so far (history)
    rpm_txt,     \* main: the RPM section of the captured output
    pip_txt,     \* main: the PIP section of the captured output
    col_txt,     \* main: the COLL section of the captured output
    rpms,        \* main: parse_rpm_lines(rpm_txt)
    pips,        \* main: parse_pip_json(pip_txt)
    cols,        \* main: parse_collections_merged(col_txt)
    tree,        \* main: make_xml(...)
    xml_file,    \* the file written by tree.write
    snapshot,    \* parse_image_xml(xml_file)
    args,        \* main: the parsed command line
    images,      \* main: the image references iter_image_refs resolves
    img,         \* main: the position in images of the loop
    login,       \* what became of the registry login
    log,         \* the podman calls made and the documents written (history)
    files        \* the report tool's main: the XML files of the input directory

diffVars == <<old_list, new_list, fwd, bwd>>
cellVars == <<diff_tuple, show_limit, cell>>
reportVars == <<entries, sorted_entries, idx, rpm_cells, pip_cells, col_cells, n_diffs>>
docVars == <<rpm_txt, pip_txt, col_txt, rpms, pips, cols, tree, xml_file, snapshot>>
batchVars == <<args, images, img, login, log>>
loadVars == <<files>>
vars == <<pc, diffVars, cellVars, reportVars, docVars, batchVars, loadVars>>

(***************************************************************************)
(* Bounds of the model.                                                    *)
(***************************************************************************)
MaxList == 2        \* longest record list handed to a diff
MaxEntries == 3     \* longest list of a diff handed to cell_html
MaxLimit == 5       \* largest sample limit handed to cell_html
MaxSnap == 3        \* most snapshots handed to build_report
MaxChunks == 4      \* most chunks of a COLL section
MaxLines == 2       \* most lines of an RPM section
MaxImages == 3      \* most image references of a run
MaxFiles == 2       \* most XML files of the input directory

(***************************************************************************)
(* The values of the variables of an operation that is not running.        *)
(***************************************************************************)
DiffIdle ==
    /\ old_list = <<>>
    /\ new_list = <<>>
    /\ fwd = <<>>
    /\ bwd = <<>>

CellIdle ==
    /\ diff_tuple = <<>>
    /\ show_limit = 0
    /\ cell = <<>>

ReportIdle ==
    /\ entries = <<>>
    /\ sorted_entries = <<>>
    /\ idx = 0
    /\ rpm_cells = <<>>
    /\ pip_cells = <<>>
    /\ col_cells = <<>>
    /\ n_diffs = 0

DocIdle ==
    /\ rpm_txt = <<>>
    /\ pip_txt = <<>>
    /\ col_txt = <<>>
    /\ rpms = <<>>
    /\ pips = <<>>
    /\ cols = <<>>
    /\ tree = <<>>
    /\ xml_file = <<>>
    /\ snapshot = <<>>

BatchIdle ==
    /\ args = <<>>
    /\ images = <<>>
    /\ img = 0
    /\ login = "none"
    /\ log = <<>>

LoadIdle == files = <<>>

(***************************************************************************)
(* Python built-ins on strings and dicts.                                  *)
(***************************************************************************)
Min(a, b) == IF a < b THEN a ELSE b

\* str.__lt__: lexicographic on code points, a proper prefix is smaller.
StrLt(a, b) ==
    LET n == Min(Len(a), Len(b))
        D == {i \in 1..n : a[i] # b[i]}
    IN  IF D = {} THEN Len(a) < Len(b)
        ELSE LET i == CHOOSE x \in D : \A y \in D : x <= y IN a[i] < b[i]

\* str.lower() on the ASCII range.
Lower(s) == [i \in 1..Len(s) |-> IF s[i] \in 65..90 THEN s[i] + 32 ELSE s[i]]

\* k in d
DictHas(d, k) == \E i \in 1..Len(d) : d[i].k = k

\* d[k]
DictGet(d, k) == d[CHOOSE i \in 1..Len(d) : d[i].k = k].v

\* d[k] = v : a new key is appended, an existing key keeps its place.
DictSet(d, k, v) ==
    IF DictHas(d, k)
    THEN [i \in 1..Len(d) |-> IF d[i].k = k THEN [k |-> k, v |-> v] ELSE d[i]]
    ELSE Append(d, [k |-> k, v |-> v])

\* Record constructors and the records the checks draw from.
\* "a" 97, "b" 98, "A" 65, "x" 120, "y" 121, "9" 57, "10" 49 48, "1" 49, "2" 50
Rpm(n, e, v, r, a) == [name |-> n, epoch |-> e, version |-> v, release |-> r, arch |-> a]
Pkg(n, v) == [name |-> n, version |-> v]

RpmUniverse ==
    { Rpm(<<97>>, <<>>,   <<57>>,     <<49>>, <<120>>),    \* a 9-1 x
      Rpm(<<97>>, <<>>,   <<49, 48>>, <<49>>, <<120>>),    \* a 10-1 x
      Rpm(<<97>>, <<49>>, <<57>>,     <<49>>, <<120>>),    \* a 1:9-1 x
      Rpm(<<97>>, <<>>,   <<57>>,     <<49>>, <<121>>),    \* a 9-1 y
      Rpm(<<98>>, <<>>,   <<49, 48>>, <<50>>, <<120>>) }   \* b 10-2 x

PkgUniverse ==
    { Pkg(<<97>>, <<57>>), Pkg(<<97>>, <<49, 48>>),        \* a 9, a 10
      Pkg(<<65>>, <<57>>), Pkg(<<65>>, <<49>>),            \* A 9, A 1
      Pkg(<<98>>, <<49>>) }                                \* b 1

ListsOf(S, n) == UNION {[1..m -> S] : m \in 0..n}

(***************************************************************************)
(* ee_inventory_to_xml.py: the collection reconciler.                      *)
(*                                                                         *)
(* A JSON document is modelled as its tree: [t |-> "dict", items |-> a     *)
(* sequence of [k, v]], [t |-> "list", items |-> a sequence of values],    *)
(* [t |-> "str", s |-> code points], [t |-> "int", n |-> a number].  The   *)
(* COLL section is modelled as the sequence of its chunks (the text        *)
(* between the ===COLL SEP=== markers, stripped): a chunk is blank, is not *)
(* JSON ("garbage"), or is a JSON document.                                *)
(***************************************************************************)
JStr(s) == [t |-> "str", s |-> s]
JInt(n) == [t |-> "int", n |-> n]
JDict(items) == [t |-> "dict", items |-> items]
JList(items) == [t |-> "list", items |-> items]
KV(k, v) == [k |-> k, v |-> v]

\* str(v) of a JSON string or of a JSON number 0..99
PyStr(v) ==
    IF v.t = "str" THEN v.s
    ELSE IF v.n < 10 THEN <<48 + v.n>>
    ELSE <<48 + (v.n \div 10), 48 + (v.n % 10)>>

\* json.loads(ch or "{}"), with "except Exception: obj = {}"
json_loads_or_empty(ch) ==
    IF ch.t \in {"blank", "garbage"} THEN JDict(<<>>) ELSE ch

IsDict(v) == v.t = "dict"

\* "." in k
HasDot(k) == \E i \in 1..Len(k) : k[i] = 46

K_collections == <<99, 111, 108, 108, 101, 99, 116, 105, 111, 110, 115>>
K_version == <<118, 101, 114, 115, 105, 111, 110>>
K_namespace == <<110, 97, 109, 101, 115, 112, 97, 99, 101>>
K_name == <<110, 97, 109, 101>>

\* The dict branch of _colls_from_obj
CollsFromDict(items) ==
    LET mp[n \in 0..Len(items)] ==
            IF n = 0 THEN <<>>
            ELSE LET k == items[n].k
                     v == items[n].v
                 IN  IF IsDict(v) /\ DictHas(v.items, K_version) /\ HasDot(k)
                     THEN DictSet(mp[n - 1], k, PyStr(DictGet(v.items, K_version)))
                     ELSE mp[n - 1]
    IN  mp[Len(items)]

\* The list branch of _colls_from_obj
CollsFromList(items) ==
    LET mp[n \in 0..Len(items)] ==
            IF n = 0 THEN <<>>
            ELSE LET e == items[n]
                 IN  IF IsDict(e) /\ DictHas(e.items, K_namespace)
                        /\ DictHas(e.items, K_name) /\ DictHas(e.items, K_version)
                     THEN DictSet(mp[n - 1],
                                  PyStr(DictGet(e.items, K_namespace)) \o <<46>>
                                      \o PyStr(DictGet(e.items, K_name)),
                                  PyStr(DictGet(e.items, K_version)))
                     ELSE mp[n - 1]
    IN  mp[Len(items)]

_colls_from_obj(obj0) ==
    LET obj == IF IsDict(obj0) /\ DictHas(obj0.items, K_collections)
                  /\ IsDict(DictGet(obj0.items, K_collections))
               THEN DictGet(obj0.items, K_collections)
               ELSE obj0
    IN  IF IsDict(obj) THEN CollsFromDict(obj.items)
        ELSE IF obj.t = "list" THEN CollsFromList(obj.items)
        ELSE <<>>

\* The highest-precedence source written first, so that the lowest wins.
MergeOrderReversed(galaxy_map, fs_map, rpm_map) == <<galaxy_map, fs_map, rpm_map>>

\* for source in (rpm_map, fs_map, galaxy_map): lowest precedence first
MergeOrder(galaxy_map, fs_map, rpm_map) == <<rpm_map, fs_map, galaxy_map>>

\* Every pair of a source appended, a name already merged included.
MergeIntoAppending(merged, source) ==
    merged \o source

\* for name, ver in source.items(): merged[name] = ver
MergeInto(merged, source) ==
    LET mg[n \in 0..Len(source)] ==
            IF n = 0 THEN merged ELSE DictSet(mg[n - 1], source[n].k, source[n].v)
    IN  mg[Len(source)]

\* list.sort(key=lambda x: x["name"].lower()) / sorted(..., key=...): stable
InsertByLowerName(s, e) ==
    LET P   == {i \in 1..Len(s) : StrLt(Lower(e.name), Lower(s[i].name))}
        pos == IF P = {} THEN Len(s) + 1 ELSE CHOOSE i \in P : \A j \in P : i <= j
    IN  SubSeq(s, 1, pos - 1) \o <<e>> \o SubSeq(s, pos, Len(s))

SortByLowerName(its) ==
    LET srt[n \in 0..Len(its)] == IF n = 0 THEN <<>> ELSE InsertByLowerName(srt[n - 1], its[n])
    IN  srt[Len(its)]

parse_collections_merged(text) ==
    LET chunks == IF Len(text) > 3 THEN SubSeq(text, 1, 3) ELSE text
        maps0  == [i \in 1..Len(chunks) |-> _colls_from_obj(json_loads_or_empty(chunks[i]))]
        maps   == maps0 \o [i \in 1..(3 - Len(maps0)) |-> <<>>]
        order  == MergeOrder(maps[1], maps[2], maps[3])
        merged == MergeInto(MergeInto(MergeInto(<<>>, order[1]), order[2]), order[3])
        its    == [i \in 1..Len(merged) |-> Pkg(merged[i].k, merged[i].v)]
    IN  SortByLowerName(its)

Blank == [t |-> "blank"]
Garbage == [t |-> "garbage"]
Ver(v) == JDict(<<KV(K_version, v)>>)

\* The chunks the checks draw from.  Names: "c.g" 99 46 103, "a.p" 97 46 112,
\* "C.G" 67 46 71, "n" 110 (no dot), "x.y" 120 46 121.
ChunkPool ==
    << Blank,
       Garbage,
       \* {"c.g": {"version": "7"}}
       JDict(<<KV(<<99, 46, 103>>, Ver(JStr(<<55>>)))>>),
       \* {"collections": {"c.g": {"version": "6"}, "a.p": {"version": "1"}}}
       JDict(<<KV(K_collections,
                  JDict(<<KV(<<99, 46, 103>>, Ver(JStr(<<54>>))),
                          KV(<<97, 46, 112>>, Ver(JStr(<<49>>)))>>))>>),
       \* [{"namespace": "c", "name": "g", "version": 15}, {"namespace": "a", "name": "p"}]
       JList(<<JDict(<<KV(K_namespace, JStr(<<99>>)), KV(K_name, JStr(<<103>>)),
                       KV(K_version, JInt(15))>>),
               JDict(<<KV(K_namespace, JStr(<<97>>)), KV(K_name, JStr(<<112>>))>>)>>),
       \* {"n": {"version": "1"}, "x.y": "2", "C.G": {"version": "8"}, "a.p": {"name": "p"}}
       JDict(<<KV(<<110>>, Ver(JStr(<<49>>))),
               KV(<<120, 46, 121>>, JStr(<<50>>)),
               KV(<<67, 46, 71>>, Ver(JStr(<<56>>))),
               KV(<<97, 46, 112>>, JDict(<<KV(K_name, JStr(<<112>>))>>))>>),
       \* 3
       JInt(3) >>

MergeInit ==
    /\ pc = "parse_collections_merged"
    /\ \E n \in 1..MaxChunks : \E c \in [1..n -> DOMAIN ChunkPool] :
          col_txt = [i \in 1..n |-> ChunkPool[c[i]]]
    /\ rpm_txt = <<>> /\ pip_txt = <<>>
    /\ rpms = <<>> /\ pips = <<>> /\ cols = <<>>
    /\ tree = <<>> /\ xml_file = <<>> /\ snapshot = <<>>
    /\ DiffIdle
    /\ CellIdle
    /\ ReportIdle
    /\ BatchIdle
    /\ LoadIdle

ParseCollectionsMerged ==
    /\ pc = "parse_collections_merged"
    /\ cols' = parse_collections_merged(col_txt)
    /\ pc' = "merged"
    /\ UNCHANGED <<rpm_txt, pip_txt, col_txt, rpms, pips, tree, xml_file, snapshot,
                   diffVars, cellVars, reportVars, batchVars, loadVars>>

MergeNext == ParseCollectionsMerged

SpecMerge == MergeInit /\ [][MergeNext]_vars

(***************************************************************************)
(* ee_inventory_to_xml.py: the parsers of the captured sections.           *)
(***************************************************************************)
Whitespace == {9, 10, 11, 12, 13, 32}

\* s.strip()
Strip(s) ==
    LET I == {i \in 1..Len(s) : s[i] \notin Whitespace}
    IN  IF I = {} THEN <<>>
        ELSE SubSeq(s, CHOOSE i \in I : \A j \in I : i <= j,
                       CHOOSE i \in I : \A j \in I : j <= i)

\* s.split(c) for a one-character separator: always at least one piece.
SplitOn(s, c) ==
    LET S == {i \in 1..Len(s) : s[i] = c}
        n == Cardinality(S)
        pos(j) == IF j = 0 THEN 0
                  ELSE IF j = n + 1 THEN Len(s) + 1
                  ELSE CHOOSE x \in S : Cardinality({y \in S : y < x}) = j - 1
    IN  [j \in 1..(n + 1) |-> SubSeq(s, pos(j - 1) + 1, pos(j) - 1)]

\* s.splitlines() for "\n" line ends: no piece for the end of the last line.
splitlines(s) ==
    LET parts == SplitOn(s, 10)
    IN  IF parts[Len(parts)] = <<>> THEN SubSeq(parts, 1, Len(parts) - 1) ELSE parts

\* s.split("==", 1) when "==" is in s: the text before and after the first "==".
FirstEqEq(s) == LET I == {i \in 1..(Len(s) - 1) : s[i] = 61 /\ s[i + 1] = 61}
                IN  IF I = {} THEN 0 ELSE CHOOSE i \in I : \A j \in I : i <= j

EpochNone == <<40, 110, 111, 110, 101, 41>>       \* "(none)"

\* Every epoch kept as it is, "(none)" included.
NormalizeEpochForgotten(epoch) == epoch

\* epoch if epoch and epoch != "(none)" else ""
NormalizeEpoch(epoch) == IF epoch # <<>> /\ epoch # EpochNone THEN epoch ELSE <<>>

parse_rpm_lines(text) ==
    LET lines == splitlines(text)
        acc[n \in 0..Len(lines)] ==
            IF n = 0 THEN <<>>
            ELSE LET line  == Strip(lines[n])
                     parts == SplitOn(line, 124)
                 IN  IF line = <<>> \/ Len(parts) = 1 THEN acc[n - 1]
                     ELSE IF Len(parts) # 5 THEN acc[n - 1]
                     ELSE Append(acc[n - 1],
                                 Rpm(Strip(parts[1]), NormalizeEpoch(Strip(parts[2])),
                                     Strip(parts[3]), Strip(parts[4]), Strip(parts[5])))
    IN  acc[Len(lines)]

NotJson == [t |-> "none"]

\* o.get(k) is truthy: the key is there with a non-empty string.
Truthy(o, k) == DictHas(o.items, k) /\ DictGet(o.items, k).s # <<>>

\* The try branch of parse_pip_json, for a document that is a list of objects.
PipFromJson(arr) ==
    LET acc[n \in 0..Len(arr)] ==
            IF n = 0 THEN <<>>
            ELSE LET o == arr[n]
                 IN  IF Truthy(o, K_name) /\ Truthy(o, K_version)
                     THEN Append(acc[n - 1],
                                 Pkg(DictGet(o.items, K_name).s, DictGet(o.items, K_version).s))
                     ELSE acc[n - 1]
    IN  acc[Len(arr)]

\* The except branch of parse_pip_json: "name==version" lines.
PipFromFreeze(text) ==
    LET lines == splitlines(text)
        acc[n \in 0..Len(lines)] ==
            IF n = 0 THEN <<>>
            ELSE LET st == Strip(lines[n])
                     i  == FirstEqEq(st)
                 IN  IF i # 0
                     THEN Append(acc[n - 1],
                                 Pkg(Strip(SubSeq(st, 1, i - 1)), Strip(SubSeq(st, i + 2, Len(st)))))
                     ELSE acc[n - 1]
    IN  acc[Len(lines)]

\* json.loads raises on text that is not JSON; iterating a list whose
\* elements are not objects raises at o.get.
PipJsonRaises(text) ==
    \/ text.doc = NotJson
    \/ text.doc.t # "list"
    \/ \E i \in DOMAIN text.doc.items : text.doc.items[i].t # "dict"

\* text is [raw, doc]: the characters, and the JSON document they spell
\* (NotJson when they spell none).
parse_pip_json(text) ==
    IF PipJsonRaises(text) THEN PipFromFreeze(text.raw) ELSE PipFromJson(text.doc.items)

(***************************************************************************)
(* ee_inventory_to_xml.py: make_xml and tree.write; ee_xml_diff_report.py: *)
(* parse_image_xml.  An element's attributes are an insertion-ordered      *)
(* dict; in the file every attribute value is escaped.                     *)
(***************************************************************************)
\* (x["name"], x["arch"], x["version"], x["release"])
RpmSortKey(x) == <<x.name, x.arch, x.version, x.release>>

\* a < b on tuples of strings of the same length
TupleLt(a, b) ==
    LET D == {i \in 1..Len(a) : a[i] # b[i]}
    IN  IF D = {} THEN FALSE
        ELSE LET i == CHOOSE x \in D : \A y \in D : x <= y IN StrLt(a[i], b[i])

\* The records kept in the order given.
InsertAtEnd(s, e) == Append(s, e)

InsertByRpmKey(s, e) ==
    LET P   == {i \in 1..Len(s) : TupleLt(RpmSortKey(e), RpmSortKey(s[i]))}
        pos == IF P = {} THEN Len(s) + 1 ELSE CHOOSE i \in P : \A j \in P : i <= j
    IN  SubSeq(s, 1, pos - 1) \o <<e>> \o SubSeq(s, pos, Len(s))

SortRpms(its) ==
    LET srt[n \in 0..Len(its)] == IF n = 0 THEN <<>> ELSE InsertByRpmKey(srt[n - 1], its[n])
    IN  srt[Len(its)]

\* The <rpm> element of a record: el.set(...) in the order of lines 232-237.
RpmElement(r) ==
    LET e1 == DictSet(<<>>, "name", r.name)
        e2 == IF r.epoch # <<>> THEN DictSet(e1, "epoch", r.epoch) ELSE e1
    IN  DictSet(DictSet(DictSet(e2, "version", r.version), "release", r.release), "arch", r.arch)

\* The <package> / <collection> element of a record.
PkgElement(x) == DictSet(DictSet(<<>>, "name", x.name), "version", x.version)

\* meta.get("Created") or meta.get("created")
MetaCreated(meta) ==
    IF meta.Created # <<>> THEN meta.Created ELSE meta.created

make_xml(image_ref, meta, rs, ps, cs) ==
    LET created == MetaCreated(meta)
        root0   == DictSet(<<>>, "reference", image_ref)
        root    == IF created # <<>> THEN DictSet(root0, "created", created) ELSE root0
        srs     == SortRpms(rs)
        sps     == SortByLowerName(ps)
        scs     == SortByLowerName(cs)
    IN  [image       |-> root,
         repoTags    |-> meta.RepoTags,
         rpms        |-> [i \in 1..Len(srs) |-> RpmElement(srs[i])],
         python      |-> [i \in 1..Len(sps) |-> PkgElement(sps[i])],
         collections |-> [i \in 1..Len(scs) |-> PkgElement(scs[i])]]

\* ElementTree's _escape_attrib of one character
EscapeAttribChar(c) ==
    CASE c = 38 -> <<38, 97, 109, 112, 59>>           \* &amp;
      [] c = 60 -> <<38, 108, 116, 59>>               \* &lt;
      [] c = 62 -> <<38, 103, 116, 59>>               \* &gt;
      [] c = 34 -> <<38, 113, 117, 111, 116, 59>>     \* &quot;
      [] c = 13 -> <<38, 35, 49, 51, 59>>             \* &#13;
      [] c = 10 -> <<38, 35, 49, 48, 59>>             \* &#10;
      [] c = 9  -> <<38, 35, 48, 57, 59>>             \* &#09;
      [] OTHER  -> <<c>>

EscapeAttrib(s) ==
    LET e[n \in 0..Len(s)] == IF n = 0 THEN <<>> ELSE e[n - 1] \o EscapeAttribChar(s[n])
    IN  e[Len(s)]

\* The character a reference &name; stands for.
DecodeReference(name) ==
    CASE name = <<97, 109, 112>>       -> 38
      [] name = <<108, 116>>           -> 60
      [] name = <<103, 116>>           -> 62
      [] name = <<113, 117, 111, 116>> -> 34
      [] name = <<35, 49, 51>>         -> 13
      [] name = <<35, 49, 48>>         -> 10
      [] name = <<35, 48, 57>>         -> 9

\* The parser's reading of an attribute value: references are replaced.
UnescapeAttrib(s) ==
    LET semi(i) == CHOOSE j \in (i + 1)..Len(s) :
                       s[j] = 59 /\ \A k \in (i + 1)..(j - 1) : s[k] # 59
        u[i \in 1..(Len(s) + 1)] ==
            IF i > Len(s) THEN [out |-> <<>>, next |-> i]
            ELSE IF s[i] = 38
                 THEN [out |-> <<DecodeReference(SubSeq(s, i + 1, semi(i) - 1))>>,
                       next |-> semi(i) + 1]
                 ELSE [out |-> <<s[i]>>, next |-> i + 1]
        r[i \in 1..(Len(s) + 1)] ==
            IF i > Len(s) THEN <<>> ELSE u[i].out \o r[u[i].next]
    IN  r[1]

EscapeElement(el) == [i \in 1..Len(el) |-> KV(el[i].k, EscapeAttrib(el[i].v))]
UnescapeElement(el) == [i \in 1..Len(el) |-> KV(el[i].k, UnescapeAttrib(el[i].v))]

EscapeElements(els) == [i \in 1..Len(els) |-> EscapeElement(els[i])]
UnescapeElements(els) == [i \in 1..Len(els) |-> UnescapeElement(els[i])]

\* tree.write(xml_path, ...): the file, attribute values escaped.
\* (Element text, of the repoTags, is left as it is: "&" and "<" do not
\* occur in the tags drawn.)
WriteXml(t) ==
    [image       |-> EscapeElement(t.image),
     repoTags    |-> t.repoTags,
     rpms        |-> EscapeElements(t.rpms),
     python      |-> EscapeElements(t.python),
     collections |-> EscapeElements(t.collections)]

\* ET.parse(path)
ParseXml(f) ==
    [image       |-> UnescapeElement(f.image),
     repoTags    |-> f.repoTags,
     rpms        |-> UnescapeElements(f.rpms),
     python      |-> UnescapeElements(f.python),
     collections |-> UnescapeElements(f.collections)]

\* attrib.get(k, "")
AttribGet(el, k) == IF DictHas(el, k) THEN DictGet(el, k) ELSE <<>>

\* An absent epoch read as "0".
LoadRpmEpochZero(r) ==
    Rpm(AttribGet(r, "name"), IF DictHas(r, "epoch") THEN DictGet(r, "epoch") ELSE <<48>>,
        AttribGet(r, "version"), AttribGet(r, "release"), AttribGet(r, "arch"))

\* Lines 32-34: one rpm record
LoadRpm(r) ==
    Rpm(AttribGet(r, "name"), AttribGet(r, "epoch"),
        AttribGet(r, "version"), AttribGet(r, "release"), AttribGet(r, "arch"))

\* Lines 35-38: one package or collection record
LoadPkg(x) == Pkg(AttribGet(x, "name"), AttribGet(x, "version"))

\* parse_image_xml: the three record lists of the snapshot.
parse_image_xml(f) ==
    LET root == ParseXml(f)
    IN  [rpms |-> [i \in 1..Len(root.rpms) |-> LoadRpm(root.rpms[i])],
         pips |-> [i \in 1..Len(root.python) |-> LoadPkg(root.python[i])],
         cols |-> [i \in 1..Len(root.collections) |-> LoadPkg(root.collections[i])]]

(***************************************************************************)
(* One image's sections going through the parsers, the builder, the file   *)
(* and the loader.                                                         *)
(***************************************************************************)
\* The lines an RPM section is drawn from.
RpmLinePool ==
    << <<98, 97, 115, 104, 124, 48, 124, 53, 46, 49, 46, 56, 124, 54, 46, 101, 108, 57, 124, 120, 56, 54, 95, 54, 52>>,   \* "bash|0|5.1.8|6.el9|x86_64"
       <<109, 97, 108, 102, 111, 114, 109, 101, 100, 45, 108, 105, 110, 101>>,   \* "malformed-line"
       <<32, 97, 32, 124, 40, 110, 111, 110, 101, 41, 124, 32, 57, 124, 49, 124, 120, 32>>,   \* " a |(none)| 9|1|x "
       <<97, 124, 49, 124, 49, 48, 124, 49, 124, 120>>,   \* "a|1|10|1|x"
       <<97, 124, 98, 124, 99>>,   \* "a|b|c"
       <<98, 124, 124, 49, 38, 60, 124, 50, 124, 121>> >>   \* "b||1&<|2|y"

\* Each line followed by "\n".
JoinLines(ls) ==
    LET j[n \in 0..Len(ls)] == IF n = 0 THEN <<>> ELSE j[n - 1] \o ls[n] \o <<10>>
    IN  j[Len(ls)]

\* The PIP sections that are drawn: pip list --format=json, or pip freeze.
PipTextPool ==
    <<
       \* [{"name": "b", "version": "1"}, {"name": "A&", "version": "9"}, {"name": "a&", "version": "<1"}]
       [raw |-> <<91, 123, 34, 110, 97, 109, 101, 34, 58, 32, 34, 98, 34, 44, 32, 34, 118, 101, 114, 115, 105, 111, 110, 34, 58, 32, 34, 49, 34, 125, 44, 32, 123, 34, 110, 97, 109, 101, 34, 58, 32, 34, 65, 38, 34, 44, 32, 34, 118, 101, 114, 115, 105, 111, 110, 34, 58, 32, 34, 57, 34, 125, 44, 32, 123, 34, 110, 97, 109, 101, 34, 58, 32, 34, 97, 38, 34, 44, 32, 34, 118, 101, 114, 115, 105, 111, 110, 34, 58, 32, 34, 60, 49, 34, 125, 93>>,
        doc |-> JList(<<JDict(<<KV(<<110, 97, 109, 101>>, JStr(<<98>>)), KV(<<118, 101, 114, 115, 105, 111, 110>>, JStr(<<49>>))>>), JDict(<<KV(<<110, 97, 109, 101>>, JStr(<<65, 38>>)), KV(<<118, 101, 114, 115, 105, 111, 110>>, JStr(<<57>>))>>), JDict(<<KV(<<110, 97, 109, 101>>, JStr(<<97, 38>>)), KV(<<118, 101, 114, 115, 105, 111, 110>>, JStr(<<60, 49>>))>>)>>)],
       \* [{"name": "a", "version": ""}, {"name": "b"}, {"name": "B", "version": "2"}]
       [raw |-> <<91, 123, 34, 110, 97, 109, 101, 34, 58, 32, 34, 97, 34, 44, 32, 34, 118, 101, 114, 115, 105, 111, 110, 34, 58, 32, 34, 34, 125, 44, 32, 123, 34, 110, 97, 109, 101, 34, 58, 32, 34, 98, 34, 125, 44, 32, 123, 34, 110, 97, 109, 101, 34, 58, 32, 34, 66, 34, 44, 32, 34, 118, 101, 114, 115, 105, 111, 110, 34, 58, 32, 34, 50, 34, 125, 93>>,
        doc |-> JList(<<JDict(<<KV(<<110, 97, 109, 101>>, JStr(<<97>>)), KV(<<118, 101, 114, 115, 105, 111, 110>>, JStr(<<>>))>>), JDict(<<KV(<<110, 97, 109, 101>>, JStr(<<98>>))>>), JDict(<<KV(<<110, 97, 109, 101>>, JStr(<<66>>)), KV(<<118, 101, 114, 115, 105, 111, 110>>, JStr(<<50>>))>>)>>)],
       \* ""
       [raw |-> <<>>, doc |-> NotJson],
       \* "b==1\n# note\n A == 9 \na==<1"
       [raw |-> <<98, 61, 61, 49, 10, 35, 32, 110, 111, 116, 101, 10, 32, 65, 32, 61, 61, 32, 57, 32, 10, 97, 61, 61, 60, 49>>, doc |-> NotJson],
       \* "[3]"
       [raw |-> <<91, 51, 93>>, doc |-> JList(<<JInt(3)>>)] >>

\* The COLL sections that are drawn, as chunks of ChunkPool.
CollTextPool ==
    << <<Blank, Blank, Blank>>,
       <<ChunkPool[3], ChunkPool[4], ChunkPool[5]>>,
       <<ChunkPool[3], Garbage, ChunkPool[6]>> >>

ImageRef == <<114, 47, 105, 58, 116>>      \* "r/i:t"

\* The image metadata that is drawn.
MetaPool ==
    << [Created |-> <<>>, created |-> <<>>, RepoTags |-> <<>>],
       [Created |-> <<50, 48, 50, 52, 45, 48, 53, 45, 48, 49, 84, 49, 48, 58, 48, 48, 58, 48, 48, 90>>, created |-> <<>>,
        RepoTags |-> <<<<114, 47, 105, 58, 116>>>>] >>

DocInit ==
    /\ pc = "parse"
    /\ \E n \in 0..MaxLines : \E c \in [1..n -> DOMAIN RpmLinePool] : \E stripped \in BOOLEAN :
          LET txt == JoinLines([i \in 1..n |-> RpmLinePool[c[i]]])
          IN  rpm_txt = IF stripped THEN Strip(txt) ELSE txt
    /\ \E i \in DOMAIN PipTextPool : pip_txt = PipTextPool[i]
    /\ \E i \in DOMAIN CollTextPool : col_txt = CollTextPool[i]
    /\ rpms = <<>> /\ pips = <<>> /\ cols = <<>>
    /\ tree = <<>> /\ xml_file = <<>> /\ snapshot = <<>>
    /\ DiffIdle
    /\ CellIdle
    /\ ReportIdle
    /\ BatchIdle
    /\ LoadIdle

\* main, lines 471-473
Parse ==
    /\ pc = "parse"
    /\ rpms' = parse_rpm_lines(rpm_txt)
    /\ pips' = parse_pip_json(pip_txt)
    /\ cols' = parse_collections_merged(col_txt)
    /\ pc' = "make_xml"
    /\ UNCHANGED <<rpm_txt, pip_txt, col_txt, tree, xml_file, snapshot,
                   diffVars, cellVars, reportVars, batchVars, loadVars>>

\* main, line 475
MakeXml ==
    /\ pc = "make_xml"
    /\ \E i \in DOMAIN MetaPool : tree' = make_xml(ImageRef, MetaPool[i], rpms, pips, cols)
    /\ pc' = "write"
    /\ UNCHANGED <<rpm_txt, pip_txt, col_txt, rpms, pips, cols, xml_file, snapshot,
                   diffVars, cellVars, reportVars, batchVars, loadVars>>

\* main, line 479
Write ==
    /\ pc = "write"
    /\ xml_file' = WriteXml(tree)
    /\ pc' = "written"
    /\ UNCHANGED <<rpm_txt, pip_txt, col_txt, rpms, pips, cols, tree, snapshot,
                   diffVars, cellVars, reportVars, batchVars, loadVars>>

\* The report tool's main, line 173
Load ==
    /\ pc = "written"
    /\ snapshot' = parse_image_xml(xml_file)
    /\ pc' = "loaded"
    /\ UNCHANGED <<rpm_txt, pip_txt, col_txt, rpms, pips, cols, tree, xml_file,
                   diffVars, cellVars, reportVars, batchVars, loadVars>>

DocNext == Parse \/ MakeXml \/ Write \/ Load

SpecDoc == DocInit /\ [][DocNext]_vars

(***************************************************************************)
(* ee_inventory_to_xml.py: main.  The podman calls are the environment:    *)
(* each one succeeds or fails.  log records, in order, every podman call   *)
(* on an image and every document written.                                 *)
(***************************************************************************)
Event(op, image) == [op |-> op, image |-> image]

\* The login is refused and the run goes on.
AfterLoginFailureGoOn == "mkdir"

\* podman_login, line 63: sys.exit(1)
AfterLoginFailure == "exit1"

\* A failed pull ends the run.
AfterPullFailureAbort(i) == [pc |-> "aborted", img |-> i]

\* main, line 454: continue
AfterPullFailure(i) == [pc |-> "pull", img |-> i + 1]

BatchInit ==
    /\ pc = "login"
    /\ args \in [username : BOOLEAN, registry : BOOLEAN, no_rmi : BOOLEAN]
    /\ \E n \in 0..MaxImages : images = [i \in 1..n |-> i]
    /\ img = 0
    /\ login = "none"
    /\ log = <<>>
    /\ DiffIdle
    /\ CellIdle
    /\ ReportIdle
    /\ DocIdle
    /\ LoadIdle

\* main, lines 434-436, and podman_login: no login without a username, or
\* (line 53) without a registry; a failed login exits with status 1.
Login ==
    /\ pc = "login"
    /\ \/ /\ ~(args.username /\ args.registry)
          /\ login' = "skipped"
          /\ pc' = "mkdir"
       \/ /\ args.username /\ args.registry
          /\ login' = "ok"
          /\ pc' = "mkdir"
       \/ /\ args.username /\ args.registry
          /\ login' = "failed"
          /\ pc' = AfterLoginFailure
    /\ UNCHANGED <<args, images, img, log, diffVars, cellVars, reportVars, docVars, loadVars>>

\* main, lines 438-444: the output directory, then iter_image_refs, which
\* exits with status 2 when tag discovery fails, as main does on no image.
IterImageRefs ==
    /\ pc = "mkdir"
    /\ \/ pc' = "exit2"
       \/ /\ images = <<>>
          /\ pc' = "exit2"
       \/ /\ images # <<>>
          /\ pc' = "pull"
    /\ img' = 1
    /\ UNCHANGED <<args, images, login, log, diffVars, cellVars, reportVars, docVars, loadVars>>

\* main, lines 449-454: podman_pull; a failure is printed and the loop continues.
Pull ==
    /\ pc = "pull"
    /\ img <= Len(images)
    /\ \/ /\ log' = Append(log, Event("pull", images[img]))
          /\ pc' = "inspect"
          /\ UNCHANGED img
       \/ /\ log' = Append(log, Event("pull failed", images[img]))
          /\ pc' = AfterPullFailure(img).pc
          /\ img' = AfterPullFailure(img).img
    /\ UNCHANGED <<args, images, login, diffVars, cellVars, reportVars, docVars, loadVars>>

\* main, lines 456-459: podman_inspect; on any exception meta is {}.
Inspect ==
    /\ pc = "inspect"
    /\ \/ log' = Append(log, Event("inspect", images[img]))
       \/ log' = Append(log, Event("inspect failed", images[img]))
    /\ pc' = "run"
    /\ UNCHANGED <<args, images, img, login, diffVars, cellVars, reportVars, docVars, loadVars>>

\* The script failed and the image is left in place.
RunFailureKeepsImage ==
    /\ pc = "run"
    /\ \/ /\ log' = Append(log, Event("run", images[img]))
          /\ pc' = "write"
          /\ UNCHANGED img
       \/ /\ log' = Append(log, Event("run failed", images[img]))
          /\ pc' = "pull"
          /\ img' = img + 1
    /\ UNCHANGED <<args, images, login, diffVars, cellVars, reportVars, docVars, loadVars>>

\* main, lines 461-467: podman_run; on a failure the image is removed
\* (unless --no-rmi) and the loop continues.
Run ==
    /\ pc = "run"
    /\ \/ /\ log' = Append(log, Event("run", images[img]))
          /\ pc' = "write"
          /\ UNCHANGED img
       \/ /\ log' = Append(log, Event("run failed", images[img]))
                    \o (IF ~args.no_rmi THEN <<Event("rmi", images[img])>> ELSE <<>>)
          /\ pc' = "pull"
          /\ img' = img + 1
    /\ UNCHANGED <<args, images, login, diffVars, cellVars, reportVars, docVars, loadVars>>

\* main, lines 469-484: the sections are parsed, the document is built and
\* written, and the image is removed (unless --no-rmi).
WriteDocument ==
    /\ pc = "write"
    /\ log' = Append(log, Event("write", images[img]))
              \o (IF ~args.no_rmi THEN <<Event("rmi", images[img])>> ELSE <<>>)
    /\ pc' = "pull"
    /\ img' = img + 1
    /\ UNCHANGED <<args, images, login, diffVars, cellVars, reportVars, docVars, loadVars>>

\* main, line 486: the loop is over.
AllDone ==
    /\ pc = "pull"
    /\ img > Len(images)
    /\ pc' = "done"
    /\ UNCHANGED <<batchVars, diffVars, cellVars, reportVars, docVars, loadVars>>

BatchNext == Login \/ IterImageRefs \/ Pull \/ Inspect \/ Run \/ WriteDocument \/ AllDone

SpecBatch == BatchInit /\ [][BatchNext]_vars

\* A step of main is a call that returns: the program does not stop midway.
FairSpecBatch == SpecBatch /\ WF_vars(BatchNext)

(***************************************************************************)
(* ee_xml_diff_report.py: the differ.                                      *)
(***************************************************************************)
rpm_key_name_arch(r) == <<r.name, r.arch>>

\* def key(x): return x[name_key].lower()
key(x) == Lower(x.name)

\* keyfunc(it), keyfunc being passed by name
CallKey(keyfunc, it) ==
    IF keyfunc = "rpm_key_name_arch" THEN rpm_key_name_arch(it) ELSE key(it)

index_by(items, keyfunc) ==
    LET d[n \in 0..Len(items)] ==
            IF n = 0 THEN <<>>
            ELSE DictSet(d[n - 1], CallKey(keyfunc, items[n]), items[n])
    IN  d[Len(items)]

rpm_version_str(r) ==
    LET evr == r.version \o <<45>> \o r.release          \* "-"
    IN  IF r.epoch # <<>> THEN r.epoch \o <<58>> \o evr  \* ":"
        ELSE evr

\* An entry of a result list: txt is the formatted line; k records the dict
\* key the line was produced for.
Entry(k, txt) == [k |-> k, txt |-> txt]

\* f"{name}[{arch}]"
RpmLabel(r) == r.name \o <<91>> \o r.arch \o <<93>>

Arrow == <<32, 8594, 32>>     \* " → "

\* The comparison with its operands swapped.
VersionLessSwapped(o, n) == StrLt(n, o)

\* o < n
VersionLess(o, n) == StrLt(o, n)

\* The first loop of diff_rpms: for k, nv in new.items()
RpmNewLoop(old, new) ==
    LET acc[n \in 0..Len(new)] ==
            IF n = 0 THEN [added |-> <<>>, upgraded |-> <<>>, downgraded |-> <<>>]
            ELSE LET k  == new[n].k
                     nv == new[n].v
                     a  == acc[n - 1]
                 IN  IF ~DictHas(old, k)
                     THEN [a EXCEPT !.added =
                              Append(@, Entry(k, <<43, 32>> \o RpmLabel(nv) \o <<32>> \o rpm_version_str(nv)))]
                     ELSE LET o == rpm_version_str(DictGet(old, k))
                              v == rpm_version_str(nv)
                          IN  IF o # v
                              THEN IF VersionLess(o, v)
                                   THEN [a EXCEPT !.upgraded =
                                            Append(@, Entry(k, <<8593, 32>> \o RpmLabel(nv) \o <<32>> \o o \o Arrow \o v))]
                                   ELSE [a EXCEPT !.downgraded =
                                            Append(@, Entry(k, <<8595, 32>> \o RpmLabel(nv) \o <<32>> \o o \o Arrow \o v))]
                              ELSE a
    IN  acc[Len(new)]

\* The second loop of diff_rpms: for k, ov in old.items()
RpmOldLoop(old, new) ==
    LET acc[n \in 0..Len(old)] ==
            IF n = 0 THEN <<>>
            ELSE IF ~DictHas(new, old[n].k)
                 THEN Append(acc[n - 1],
                             Entry(old[n].k, <<8722, 32>> \o RpmLabel(old[n].v) \o <<32>>
                                             \o rpm_version_str(old[n].v)))
                 ELSE acc[n - 1]
    IN  acc[Len(old)]

\* A differ whose second loop was lost: nothing is ever reported removed.
diff_rpms_no_removed(old_l, new_l) ==
    LET old == index_by(old_l, "rpm_key_name_arch")
        new == index_by(new_l, "rpm_key_name_arch")
        a   == RpmNewLoop(old, new)
    IN  [added |-> a.added, removed |-> <<>>,
         upgraded |-> a.upgraded, downgraded |-> a.downgraded]

diff_rpms(old_l, new_l) ==
    LET old == index_by(old_l, "rpm_key_name_arch")
        new == index_by(new_l, "rpm_key_name_arch")
        a   == RpmNewLoop(old, new)
    IN  [added |-> a.added, removed |-> RpmOldLoop(old, new),
         upgraded |-> a.upgraded, downgraded |-> a.downgraded]

\* The first loop of diff_simple_pkgs: for k, nv in new.items()
SimpleNewLoop(old, new) ==
    LET acc[n \in 0..Len(new)] ==
            IF n = 0 THEN [added |-> <<>>, upgraded |-> <<>>, downgraded |-> <<>>]
            ELSE LET k  == new[n].k
                     nv == new[n].v
                     a  == acc[n - 1]
                 IN  IF ~DictHas(old, k)
                     THEN [a EXCEPT !.added =
                              Append(@, Entry(k, <<43, 32>> \o nv.name \o <<32>> \o nv.version))]
                     ELSE LET o == DictGet(old, k).version
                              v == nv.version
                          IN  IF o # v
                              THEN IF VersionLess(o, v)
                                   THEN [a EXCEPT !.upgraded =
                                            Append(@, Entry(k, <<8593, 32>> \o nv.name \o <<32>> \o o \o Arrow \o v))]
                                   ELSE [a EXCEPT !.downgraded =
                                            Append(@, Entry(k, <<8595, 32>> \o nv.name \o <<32>> \o o \o Arrow \o v))]
                              ELSE a
    IN  acc[Len(new)]

\* The second loop of diff_simple_pkgs: for k, ov in old.items()
SimpleOldLoop(old, new) ==
    LET acc[n \in 0..Len(old)] ==
            IF n = 0 THEN <<>>
            ELSE IF ~DictHas(new, old[n].k)
                 THEN Append(acc[n - 1],
                             Entry(old[n].k, <<8722, 32>> \o old[n].v.name \o <<32>> \o old[n].v.version))
                 ELSE acc[n - 1]
    IN  acc[Len(old)]

diff_simple_pkgs(old_l, new_l) ==
    LET old == index_by(old_l, "key")
        new == index_by(new_l, "key")
        a   == SimpleNewLoop(old, new)
    IN  [added |-> a.added, removed |-> SimpleOldLoop(old, new),
         upgraded |-> a.upgraded, downgraded |-> a.downgraded]

(***************************************************************************)
(* ee_xml_diff_report.py: the cell renderer.  The HTML of a cell is        *)
(* modelled as the sequence of its top-level elements; text nodes are the  *)
(* escaped strings.                                                        *)
(***************************************************************************)
\* html.escape of one character: & < > " '
EscapeChar(c) ==
    CASE c = 38 -> <<38, 97, 109, 112, 59>>           \* &amp;
      [] c = 60 -> <<38, 108, 116, 59>>               \* &lt;
      [] c = 62 -> <<38, 103, 116, 59>>               \* &gt;
      [] c = 34 -> <<38, 113, 117, 111, 116, 59>>     \* &quot;
      [] c = 39 -> <<38, 35, 120, 50, 55, 59>>        \* &#x27;
      [] OTHER  -> <<c>>

escape(s) ==
    LET e[n \in 0..Len(s)] == IF n = 0 THEN <<>> ELSE e[n - 1] \o EscapeChar(s[n])
    IN  e[Len(s)]

\* "".join(f"<li>{escape(s)}</li>" for s in entries)
ListItems(ents) == [i \in 1..Len(ents) |-> escape(ents[i].txt)]

\* seq[:n] for n >= 0
Take(seq, n) == SubSeq(seq, 1, Min(n, Len(seq)))

\* The whole limit taken from each list.
HalfForgotten(limit) == limit

\* show_limit//2
Half(limit) == limit \div 2

\* def to_list(title, entries)
to_list(title, ents) ==
    IF ents = <<>> THEN <<>>
    ELSE <<[h5 |-> title, li |-> ListItems(ents)]>>

cell_html(d, limit) ==
    LET total  == Len(d.added) + Len(d.removed) + Len(d.upgraded) + Len(d.downgraded)
        counts == [tag |-> "div.counts", added |-> Len(d.added), upgraded |-> Len(d.upgraded),
                   downgraded |-> Len(d.downgraded), removed |-> Len(d.removed)]
        sample == Take(d.added, Half(limit)) \o Take(d.upgraded, Half(limit))
        remaining == total - Len(sample)
        details_html == to_list("Added", d.added) \o to_list("Upgraded", d.upgraded)
                        \o to_list("Downgraded", d.downgraded) \o to_list("Removed", d.removed)
    IN  IF total = 0 THEN <<[tag |-> "div.empty"]>>
        ELSE <<counts>>
             \o (IF sample # <<>> THEN <<[tag |-> "ul", li |-> ListItems(sample)]>> ELSE <<>>)
             \o (IF remaining > 0
                 THEN <<[tag |-> "details", summary |-> total, body |-> details_html]>>
                 ELSE <<>>)

\* The i-th entry of a list of a diff: a line with a character that the
\* renderer must escape.
PoolEntry(sign, i) ==
    Entry(<<sign, i>>, <<sign, 32, 96 + i>> \o (IF i % 2 = 1 THEN <<38>> ELSE <<60>>))

Pool(sign, n) == [i \in 1..n |-> PoolEntry(sign, i)]

CellInit ==
    /\ pc = "cell_html"
    /\ \E a, r, u, d \in 0..MaxEntries :
          diff_tuple = [added |-> Pool(43, a), removed |-> Pool(8722, r),
                        upgraded |-> Pool(8593, u), downgraded |-> Pool(8595, d)]
    /\ show_limit \in 0..MaxLimit
    /\ cell = <<>>
    /\ DiffIdle
    /\ ReportIdle
    /\ DocIdle
    /\ BatchIdle
    /\ LoadIdle

CellHtml ==
    /\ pc = "cell_html"
    /\ cell' = cell_html(diff_tuple, show_limit)
    /\ pc' = "cell_done"
    /\ UNCHANGED <<diff_tuple, show_limit, diffVars, reportVars, docVars, batchVars, loadVars>>

CellNext == CellHtml

SpecCell == CellInit /\ [][CellNext]_vars

(***************************************************************************)
(* ee_xml_diff_report.py: build_report.                                    *)
(*                                                                         *)
(* A datetime is [aware, t]: parse_image_xml yields datetime.min, a naive  *)
(* datetime, or (fromisoformat of a string that keeps a numeric zone) an   *)
(* aware one; t is the instant.  Python refuses to order a naive and an    *)
(* aware datetime: "<" raises TypeError.                                   *)
(***************************************************************************)
DatetimeMin == [aware |-> FALSE, t |-> 0]
Naive(t) == [aware |-> FALSE, t |-> t]
Aware(t) == [aware |-> TRUE, t |-> t]

\* The sort key of line 123: (e['created'], e['tag'])
ReportKey(e) == [created |-> e.created, tag |-> e.tag]

\* a < b on two keys raises when the datetimes differ and only one is aware.
KeyLtRaises(a, b) == a.created # b.created /\ a.created.aware # b.created.aware

\* The order of the keys reversed.
KeyLtDescending(a, b) ==
    IF a.created = b.created THEN StrLt(b.tag, a.tag)
    ELSE b.created.t < a.created.t

\* a < b on two keys: tuples compare by their first unequal component.
KeyLt(a, b) ==
    IF a.created = b.created THEN StrLt(a.tag, b.tag)
    ELSE a.created.t < b.created.t

\* sorted() is stable: an element goes before the first one greater than it.
InsertSorted(s, e) ==
    LET P   == {i \in 1..Len(s) : KeyLt(ReportKey(e), ReportKey(s[i]))}
        pos == IF P = {} THEN Len(s) + 1 ELSE CHOOSE i \in P : \A j \in P : i <= j
    IN  SubSeq(s, 1, pos - 1) \o <<e>> \o SubSeq(s, pos, Len(s))

\* sorted(entries, key=lambda e: (e['created'], e['tag']))
SortEntries(es) ==
    LET srt[n \in 0..Len(es)] == IF n = 0 THEN <<>> ELSE InsertSorted(srt[n - 1], es[n])
    IN  srt[Len(es)]

\* Sorting compares, directly or through others, every two elements: it
\* raises when some two keys cannot be ordered.
SortRaises(es) ==
    \E i, j \in DOMAIN es : KeyLtRaises(ReportKey(es[i]), ReportKey(es[j]))

DefaultShowLimit == 30

Snapshot(c, t, r, p, k) == [created |-> c, tag |-> t, rpms |-> r, pips |-> p, cols |-> k]

\* Two package sets a snapshot may hold.
ContentsA(c, t) ==
    Snapshot(c, t,
             <<Rpm(<<97>>, <<>>, <<57>>, <<49>>, <<120>>)>>,
             <<Pkg(<<97>>, <<57>>)>>,
             <<>>)
ContentsB(c, t) ==
    Snapshot(c, t,
             <<Rpm(<<97>>, <<>>, <<49, 48>>, <<49>>, <<120>>),
               Rpm(<<98>>, <<>>, <<49, 48>>, <<50>>, <<120>>)>>,
             <<Pkg(<<65>>, <<49>>)>>,
             <<Pkg(<<98>>, <<49>>)>>)

SnapshotUniverse ==
    { ContentsA(DatetimeMin, <<97>>), ContentsB(DatetimeMin, <<98>>),
      ContentsB(Naive(1), <<97>>),    ContentsA(Naive(1), <<98>>),
      ContentsA(Naive(2), <<97>>),    ContentsB(Naive(2), <<97>>),
      ContentsA(Aware(1), <<97>>),    ContentsB(Aware(2), <<98>>) }

ReportInit ==
    /\ pc = "build_report"
    /\ entries \in ListsOf(SnapshotUniverse, MaxSnap) \ {<<>>}
    /\ sorted_entries = <<>>
    /\ idx = 0
    /\ rpm_cells = <<>>
    /\ pip_cells = <<>>
    /\ col_cells = <<>>
    /\ n_diffs = 0
    /\ DiffIdle
    /\ CellIdle
    /\ DocIdle
    /\ BatchIdle
    /\ LoadIdle

\* Line 123: the sort, which raises out of build_report when it cannot order.
ReportSort ==
    /\ pc = "build_report"
    /\ IF SortRaises(entries)
       THEN pc' = "TypeError" /\ UNCHANGED sorted_entries
       ELSE pc' = "report_loop" /\ sorted_entries' = SortEntries(entries)
    /\ UNCHANGED <<entries, idx, rpm_cells, pip_cells, col_cells, n_diffs, diffVars, cellVars, docVars, batchVars, loadVars>>

\* Lines 126-133: one round of the loop.  The empty cell "" is <<>>.
ReportColumn ==
    /\ pc = "report_loop"
    /\ idx < Len(sorted_entries)
    /\ IF idx = 0
       THEN /\ rpm_cells' = Append(rpm_cells, <<>>)
            /\ pip_cells' = Append(pip_cells, <<>>)
            /\ col_cells' = Append(col_cells, <<>>)
            /\ UNCHANGED n_diffs
       ELSE LET prev == sorted_entries[idx]          \* entries[idx-1], 0-based
                e    == sorted_entries[idx + 1]      \* entries[idx], 0-based
            IN  /\ rpm_cells' = Append(rpm_cells,
                                       cell_html(diff_rpms(prev.rpms, e.rpms), DefaultShowLimit))
                /\ pip_cells' = Append(pip_cells,
                                       cell_html(diff_simple_pkgs(prev.pips, e.pips), DefaultShowLimit))
                /\ col_cells' = Append(col_cells,
                                       cell_html(diff_simple_pkgs(prev.cols, e.cols), DefaultShowLimit))
                /\ n_diffs' = n_diffs + 3
    /\ idx' = idx + 1
    /\ UNCHANGED <<pc, entries, sorted_entries, diffVars, cellVars, docVars, batchVars, loadVars>>

\* Lines 134-164: the page is assembled from the tags and the three rows.
ReportFinish ==
    /\ pc = "report_loop"
    /\ idx = Len(sorted_entries)
    /\ pc' = "report_done"
    /\ UNCHANGED <<reportVars, diffVars, cellVars, docVars, batchVars, loadVars>>

ReportNext == ReportSort \/ ReportColumn \/ ReportFinish

SpecReport == ReportInit /\ [][ReportNext]_vars

(***************************************************************************)
(* ee_xml_diff_report.py: parse_image_xml (the tag and the timestamp of a  *)
(* snapshot) and main.  A file is [path, content]; a path and an attribute *)
(* value are sequences of code points.  None and "" are both <<>>: the     *)
(* code tests them with "not tag" and "if created".                        *)
(***************************************************************************)
\* s.rsplit("/", 1)[-1]
LastSegment(s) == LET p == SplitOn(s, 47) IN p[Len(p)]

\* c in s
HasChar(s, c) == \E i \in 1..Len(s) : s[i] = c

\* Lines 12-14: ref.rsplit("/",1)[-1].split(":")[1]
TagFromReference(ref) ==
    LET seg == LastSegment(ref)
    IN  IF HasChar(seg, 58) THEN SplitOn(seg, 58)[2] ELSE <<>>

\* Lines 16-20: the first <tag> whose stripped text has a ":" decides.
TagFromRepoTags(tags) ==
    LET I == {i \in DOMAIN tags : HasChar(Strip(tags[i]), 58)}
    IN  IF I = {} THEN <<>>
        ELSE LET i == CHOOSE x \in I : \A y \in I : x <= y
                 p == SplitOn(Strip(tags[i]), 58)
             IN  p[Len(p)]

DotXml == <<46, 120, 109, 108>>

\* Lines 22-24: re.search(r"__([^./]+)\.xml$", str(path)).group(1), the
\* leftmost match; none is <<>>.
TagFromPath(path) ==
    LET n == Len(path)
        I == {i \in 1..(n - 6) : /\ path[i] = 95
                                 /\ path[i + 1] = 95
                                 /\ \A k \in (i + 2)..(n - 4) : path[k] \notin {46, 47}}
    IN  IF n >= 7 /\ SubSeq(path, n - 3, n) = DotXml /\ I # {}
        THEN SubSeq(path, (CHOOSE x \in I : \A y \in I : x <= y) + 2, n - 4)
        ELSE <<>>

\* path.stem: the final component without its last suffix
Stem(path) ==
    LET name == LastSegment(path)
        D    == {i \in 1..Len(name) : name[i] = 46}
        i    == CHOOSE x \in D : \A y \in D : y <= x
    IN  IF D # {} /\ 1 < i /\ i < Len(name) THEN SubSeq(name, 1, i - 1) ELSE name

\* Lines 10-24 and 39: tag or path.stem
ImageTag(path, root) ==
    LET t1 == TagFromReference(AttribGet(root.image, "reference"))
        t2 == IF t1 # <<>> THEN t1 ELSE TagFromRepoTags(root.repoTags)
        t3 == IF t2 # <<>> THEN t2 ELSE TagFromPath(path)
    IN  IF t3 # <<>> THEN t3 ELSE Stem(path)

\* Line 27: created.split("Z")[0].split(".")[0]
Trim(created) == SplitOn(SplitOn(created, 90)[1], 46)[1]

IsDigits(s) == \A i \in 1..Len(s) : s[i] \in 48..57

\* int(s) of a string of digits
Num(s) ==
    LET v[n \in 0..Len(s)] == IF n = 0 THEN 0 ELSE 10 * v[n - 1] + (s[n] - 48)
    IN  v[Len(s)]

LeapYear(y) == y % 4 = 0 /\ (y % 100 # 0 \/ y % 400 = 0)

DaysInMonth(y, m) ==
    IF m = 2 THEN (IF LeapYear(y) THEN 29 ELSE 28)
    ELSE IF m \in {4, 6, 9, 11} THEN 30 ELSE 31

\* "YYYY-MM-DD" naming a day of the calendar
ValidDate(s) ==
    /\ Len(s) = 10
    /\ s[5] = 45 /\ s[8] = 45
    /\ IsDigits(SubSeq(s, 1, 4)) /\ IsDigits(SubSeq(s, 6, 7)) /\ IsDigits(SubSeq(s, 9, 10))
    /\ Num(SubSeq(s, 1, 4)) >= 1
    /\ Num(SubSeq(s, 6, 7)) \in 1..12
    /\ Num(SubSeq(s, 9, 10)) \in 1..DaysInMonth(Num(SubSeq(s, 1, 4)), Num(SubSeq(s, 6, 7)))

\* "HH:MM:SS"
ValidTime(s) ==
    /\ Len(s) = 8
    /\ s[3] = 58 /\ s[6] = 58
    /\ IsDigits(SubSeq(s, 1, 2)) /\ IsDigits(SubSeq(s, 4, 5)) /\ IsDigits(SubSeq(s, 7, 8))
    /\ Num(SubSeq(s, 1, 2)) < 24 /\ Num(SubSeq(s, 4, 5)) < 60 /\ Num(SubSeq(s, 7, 8)) < 60

\* "+HH:MM" or "-HH:MM"
ValidOffset(s) ==
    /\ Len(s) = 6
    /\ s[1] \in {43, 45} /\ s[4] = 58
    /\ IsDigits(SubSeq(s, 2, 3)) /\ IsDigits(SubSeq(s, 5, 6))
    /\ Num(SubSeq(s, 2, 3)) < 24 /\ Num(SubSeq(s, 5, 6)) < 60

\* The days from 0001-01-01 to the date.
DaysSinceMin(s) ==
    LET y == Num(SubSeq(s, 1, 4))
        m == Num(SubSeq(s, 6, 7))
        d == Num(SubSeq(s, 9, 10))
        before[k \in 1..12] == IF k = 1 THEN 0 ELSE before[k - 1] + DaysInMonth(y, k - 1)
    IN  (y - 1) * 365 + ((y - 1) \div 4) - ((y - 1) \div 100) + ((y - 1) \div 400)
        + before[m] + (d - 1)

\* The minutes from midnight to the time (the instants of the model count
\* minutes; the timestamps drawn have 00 seconds).
MinutesOfDay(s) == Num(SubSeq(s, 1, 2)) * 60 + Num(SubSeq(s, 4, 5))

OffsetMinutes(s) ==
    (IF s[1] = 45 THEN -1 ELSE 1) * (Num(SubSeq(s, 2, 3)) * 60 + Num(SubSeq(s, 5, 6)))

\* datetime.fromisoformat(s) raises ValueError.  The shapes told apart are a
\* date, a date and a time (any separator), and these with a numeric zone.
FromIsoRaises(s) ==
    ~ \/ ValidDate(s)
      \/ Len(s) = 19 /\ ValidDate(SubSeq(s, 1, 10)) /\ ValidTime(SubSeq(s, 12, 19))
      \/ Len(s) = 25 /\ ValidDate(SubSeq(s, 1, 10)) /\ ValidTime(SubSeq(s, 12, 19))
                     /\ ValidOffset(SubSeq(s, 20, 25))

\* datetime.fromisoformat(s) of a string it accepts: aware when s has a zone.
fromisoformat(s) ==
    LET local == DaysSinceMin(s) * 1440
                 + (IF Len(s) = 10 THEN 0 ELSE MinutesOfDay(SubSeq(s, 12, 19)))
    IN  IF Len(s) = 25 THEN Aware(local - OffsetMinutes(SubSeq(s, 20, 25)))
        ELSE Naive(local)

\* Lines 11 and 25-31 and 39: created_dt or datetime.min
CreatedDt(root) ==
    LET created == AttribGet(root.image, "created")
    IN  IF created = <<>> \/ FromIsoRaises(Trim(created)) THEN DatetimeMin
        ELSE fromisoformat(Trim(created))

\* parse_image_xml(path): the snapshot of a file
LoadSnapshot(file) ==
    LET root == ParseXml(file.content)
        body == parse_image_xml(file.content)
    IN  Snapshot(CreatedDt(root), ImageTag(file.path, root), body.rpms, body.pips, body.cols)

\* A document of the input directory: its root attributes and its repoTags.
File(path, attrib, tags) ==
    [path    |-> path,
     content |-> WriteXml([image |-> attrib, repoTags |-> tags,
                           rpms |-> <<>>, python |-> <<>>, collections |-> <<>>])]


\* The root attributes that are drawn: no reference, or one.
ReferencePool ==
    << <<>>,   \* None
       <<KV("reference", <<114, 47, 105, 58, 116>>)>>,   \* 'r/i:t'
       <<KV("reference", <<114, 58, 53, 48, 48, 48, 47, 105>>)>>,   \* 'r:5000/i'
       <<KV("reference", <<114, 47, 105, 58>>)>>,   \* 'r/i:'
       <<KV("reference", <<114, 47, 105, 58, 49, 64, 115, 58, 100>>)>>,   \* 'r/i:1@s:d'
       <<KV("reference", <<114, 47, 105, 64, 115, 58, 100>>)>> >>   \* 'r/i@s:d'

\* The repoTags that are drawn.
RepoTagsPool ==
    << <<>>,   \* []
       <<<<120>>, <<32, 114, 47, 105, 58, 114, 116, 32>>>>,   \* ['x', ' r/i:rt ']
       <<<<114, 47, 105, 58>>, <<114, 47, 105, 58, 122>>>>,   \* ['r/i:', 'r/i:z']
       <<<<104, 58, 53, 47, 105, 58, 117>>>> >>   \* ['h:5/i:u']

\* The paths that are drawn.
PathPool ==
    << <<100, 47, 105, 95, 95, 102, 116, 46, 120, 109, 108>>,   \* 'd/i__ft.xml'
       <<100, 47, 105, 95, 95, 49, 46, 48, 46, 120, 109, 108>>,   \* 'd/i__1.0.xml'
       <<100, 47, 112, 108, 97, 105, 110, 46, 120, 109, 108>>,   \* 'd/plain.xml'
       <<100, 46, 120, 47, 97, 95, 95, 98, 95, 95, 99, 46, 120, 109, 108>> >>   \* 'd.x/a__b__c.xml'

\* The created attributes that are drawn, after the absent one.
CreatedPool ==
    << <<>>,   \* ''
       <<103, 97, 114, 98, 97, 103, 101>>,   \* 'garbage'
       <<50, 48, 50, 52, 45, 48, 53, 45, 48, 49, 84, 49, 48, 58, 48, 48, 58, 48, 48, 46, 49, 50, 51, 52, 53, 54, 55, 56, 57, 90>>,   \* '2024-05-01T10:00:00.123456789Z'
       <<50, 48, 50, 52, 45, 48, 53, 45, 48, 49, 84, 49, 48, 58, 48, 48, 58, 48, 48, 90>>,   \* '2024-05-01T10:00:00Z'
       <<50, 48, 50, 52, 45, 48, 53, 45, 48, 49, 84, 49, 48, 58, 48, 48, 58, 48, 48, 43, 48, 50, 58, 48, 48>>,   \* '2024-05-01T10:00:00+02:00'
       <<50, 48, 50, 52, 45, 48, 53, 45, 48, 49, 84, 49, 48, 58, 48, 48, 58, 48, 48, 46, 53, 43, 48, 50, 58, 48, 48>>,   \* '2024-05-01T10:00:00.5+02:00'
       <<50, 48, 50, 52, 45, 48, 53, 45, 48, 50, 32, 48, 57, 58, 51, 48, 58, 48, 48>>,   \* '2024-05-02 09:30:00'
       <<50, 48, 50, 52, 45, 48, 50, 45, 51, 48, 84, 49, 48, 58, 48, 48, 58, 48, 48, 90>>,   \* '2024-02-30T10:00:00Z'
       <<50, 48, 50, 51, 45, 49, 50, 45, 51, 49>> >>   \* '2023-12-31'

\* The i-th file of the directory: "d/f<i>.xml"
FilePath(i) == <<100, 47, 102, 48 + i, 46, 120, 109, 108>>

\* The root attributes of a file with the k-th created attribute (0: none)
\* and with or without the reference "r/i:t".
StampAttrib(withRef, k) ==
    (IF withRef THEN ReferencePool[2] ELSE <<>>)
    \o (IF k = 0 THEN <<>> ELSE <<KV("created", CreatedPool[k])>>)

LoadInitRest ==
    /\ pc = "main"
    /\ entries = <<>>
    /\ sorted_entries = <<>>
    /\ idx = 0
    /\ rpm_cells = <<>>
    /\ pip_cells = <<>>
    /\ col_cells = <<>>
    /\ n_diffs = 0
    /\ DiffIdle
    /\ CellIdle
    /\ DocIdle
    /\ BatchIdle

\* One file, its reference, repoTags and path drawn.
TagInit ==
    /\ \E r \in DOMAIN ReferencePool, t \in DOMAIN RepoTagsPool, p \in DOMAIN PathPool :
          files = <<File(PathPool[p], ReferencePool[r], RepoTagsPool[t])>>
    /\ LoadInitRest

\* main, lines 170-172: sorted(in_dir.glob("*.xml")), 1..MaxFiles files in
\* the order of their paths, the created attribute of each drawn.
StampInit ==
    /\ \E n \in 1..MaxFiles :
          \E c \in [1..n -> 0..Len(CreatedPool)], w \in [1..n -> BOOLEAN] :
              files = [i \in 1..n |-> File(FilePath(i), StampAttrib(w[i], c[i]), <<>>)]
    /\ LoadInitRest

\* main, line 173: entries = [parse_image_xml(p) for p in files]
ParseFiles ==
    /\ pc = "main"
    /\ entries' = [i \in 1..Len(files) |-> LoadSnapshot(files[i])]
    /\ pc' = "build_report"
    /\ UNCHANGED <<sorted_entries, idx, rpm_cells, pip_cells, col_cells, n_diffs,
                   diffVars, cellVars, docVars, batchVars, loadVars>>

\* main, lines 173-174: the files are parsed, then build_report runs.
LoadNext == ParseFiles \/ ReportSort \/ ReportColumn \/ ReportFinish

SpecTag == TagInit /\ [][LoadNext]_vars

SpecStamp == StampInit /\ [][LoadNext]_vars

(***************************************************************************)
(* The differ applied to bounded record lists, in both directions.         *)
(***************************************************************************)
DiffInit ==
    /\ pc \in {"diff_rpms", "diff_simple_pkgs"}
    /\ \/ pc = "diff_rpms" /\ old_list \in ListsOf(RpmUniverse, MaxList)
                            /\ new_list \in ListsOf(RpmUniverse, MaxList)
       \/ pc = "diff_simple_pkgs" /\ old_list \in ListsOf(PkgUniverse, MaxList)
                                   /\ new_list \in ListsOf(PkgUniverse, MaxList)
    /\ fwd = <<>>
    /\ bwd = <<>>
    /\ CellIdle
    /\ ReportIdle
    /\ DocIdle
    /\ BatchIdle
    /\ LoadIdle

DiffRpms ==
    /\ pc = "diff_rpms"
    /\ fwd' = diff_rpms(old_list, new_list)
    /\ bwd' = diff_rpms(new_list, old_list)
    /\ pc' = "diff_rpms_done"
    /\ UNCHANGED <<old_list, new_list, cellVars, reportVars, docVars, batchVars, loadVars>>

DiffSimplePkgs ==
    /\ pc = "diff_simple_pkgs"
    /\ fwd' = diff_simple_pkgs(old_list, new_list)
    /\ bwd' = diff_simple_pkgs(new_list, old_list)
    /\ pc' = "diff_simple_done"
    /\ UNCHANGED <<old_list, new_list, cellVars, reportVars, docVars, batchVars, loadVars>>

DiffNext == DiffRpms \/ DiffSimplePkgs

SpecDiff == DiffInit /\ [][DiffNext]_vars

(***************************************************************************)
(* Claims about the differ.                                                *)
(***************************************************************************)
DiffDone == pc \in {"diff_rpms_done", "diff_simple_done"}

\* The identity key of a record of the class being diffed.
IdKey(r) == IF pc = "diff_rpms_done" THEN <<r.name, r.arch>> ELSE Lower(r.name)

\* The effective-version string of a record of the class being diffed.
EffVer(r) ==
    IF pc = "diff_rpms_done"
    THEN (IF r.epoch = <<>> THEN <<>> ELSE r.epoch \o <<58>>) \o r.version \o <<45>> \o r.release
    ELSE r.version

IdKeys(list) == {IdKey(list[i]) : i \in DOMAIN list}

\* The effective version a list gives key k: that of the last record with
\* the key (a later record replaces an earlier one of the same key).
VerOf(list, k) ==
    LET I == {i \in DOMAIN list : IdKey(list[i]) = k}
    IN  EffVer(list[CHOOSE i \in I : \A j \in I : j <= i])

EntriesFor(L, k) == Cardinality({i \in DOMAIN L : L[i].k = k})
EntryKeys(L) == {L[i].k : i \in DOMAIN L}

Unchanged(old, new) ==
    {k \in IdKeys(old) \cap IdKeys(new) : VerOf(old, k) = VerOf(new, k)}

\* The number of entries of d for key k, as <<added, removed, upgraded, downgraded>>.
Placed(d, k) == <<EntriesFor(d.added, k), EntriesFor(d.removed, k),
                  EntriesFor(d.upgraded, k), EntriesFor(d.downgraded, k)>>

\* C2: diff_rpms and diff_simple_pkgs classify every identity key of the
\* union exactly once: only in new -> added; only in old -> removed; in both
\* with different effective versions -> upgraded when old < new as strings,
\* downgraded otherwise; in both with equal versions -> no entry; and the
\* four lengths plus the number of unchanged keys is the size of the union.
C2_DiffClassifiesEachKeyOnce ==
    DiffDone =>
        LET O == IdKeys(old_list)
            N == IdKeys(new_list)
        IN  /\ \A k \in O \cup N :
                  Placed(fwd, k) =
                     IF k \notin O THEN <<1, 0, 0, 0>>
                     ELSE IF k \notin N THEN <<0, 1, 0, 0>>
                     ELSE IF VerOf(old_list, k) = VerOf(new_list, k) THEN <<0, 0, 0, 0>>
                     ELSE IF StrLt(VerOf(old_list, k), VerOf(new_list, k)) THEN <<0, 0, 1, 0>>
                     ELSE <<0, 0, 0, 1>>
            /\ Len(fwd.added) + Len(fwd.removed) + Len(fwd.upgraded) + Len(fwd.downgraded)
                  + Cardinality(Unchanged(old_list, new_list)) = Cardinality(O \cup N)

\* C2 witness: an rpm diff with an added, a removed and a downgraded key,
\* the downgrade being one only by string order ("9-1" -> "10-1").
C2_Witness ==
    /\ pc = "diff_rpms_done"
    /\ Len(fwd.added) = 1 /\ Len(fwd.removed) = 1 /\ Len(fwd.downgraded) = 1
    /\ \E k \in EntryKeys(fwd.downgraded) :
          VerOf(old_list, k) = <<57, 45, 49>> /\ VerOf(new_list, k) = <<49, 48, 45, 49>>

\* C3: diff(A, B) and diff(B, A) hold the same identity keys with added and
\* removed swapped and upgraded and downgraded swapped.
C3_DiffSymmetry ==
    DiffDone =>
        /\ EntryKeys(fwd.added) = EntryKeys(bwd.removed)
        /\ EntryKeys(fwd.removed) = EntryKeys(bwd.added)
        /\ EntryKeys(fwd.upgraded) = EntryKeys(bwd.downgraded)
        /\ EntryKeys(fwd.downgraded) = EntryKeys(bwd.upgraded)

\* C3 witness: a diff, in each class, with an upgraded and a removed key, so
\* that the reverse diff has a downgraded and an added one.
C3_Witness ==
    /\ DiffDone
    /\ fwd.upgraded # <<>> /\ fwd.removed # <<>>
    /\ bwd.downgraded # <<>> /\ bwd.added # <<>>

(***************************************************************************)
(* Claims about the cell renderer.                                         *)
(***************************************************************************)
CellTotal == Len(diff_tuple.added) + Len(diff_tuple.removed)
             + Len(diff_tuple.upgraded) + Len(diff_tuple.downgraded)

CellBlocks(t) == {i \in DOMAIN cell : cell[i].tag = t}

\* The escaped lines of the first n entries of a list (all when it is shorter).
FirstLines(list, n) ==
    [i \in 1..(IF Len(list) < n THEN Len(list) ELSE n) |-> escape(list[i].txt)]

AllLines(list) == FirstLines(list, Len(list))

\* Some entry of the diff is not among the sampled ones.
SomeEntryUnshown ==
    \/ Len(diff_tuple.added) > show_limit \div 2
    \/ Len(diff_tuple.upgraded) > show_limit \div 2
    \/ diff_tuple.downgraded # <<>>
    \/ diff_tuple.removed # <<>>

\* The sublists of an expandable block: the non-empty lists of the diff, whole.
FullBreakdown(body) ==
    LET want == <<[h5 |-> "Added", l |-> diff_tuple.added],
                  [h5 |-> "Upgraded", l |-> diff_tuple.upgraded],
                  [h5 |-> "Downgraded", l |-> diff_tuple.downgraded],
                  [h5 |-> "Removed", l |-> diff_tuple.removed]>>
        kept == SelectSeq(want, LAMBDA w : w.l # <<>>)
    IN  /\ Len(body) = Len(kept)
        /\ \A i \in DOMAIN body : body[i] = [h5 |-> kept[i].h5, li |-> AllLines(kept[i].l)]

\* C9: a cell with no change is only the "no changes" marker; otherwise it
\* has the counts line, an inline sample of at most limit/2 entries of added
\* followed by at most limit/2 entries of upgraded, and an expandable block,
\* labelled with the total and holding the four complete sublists, exactly
\* when some entry is not in the sample (limit >= 0).
C9_CellLayout ==
    pc = "cell_done" =>
        IF CellTotal = 0
        THEN cell = <<[tag |-> "div.empty"]>>
        ELSE LET sample == FirstLines(diff_tuple.added, show_limit \div 2)
                           \o FirstLines(diff_tuple.upgraded, show_limit \div 2)
             IN  /\ CellBlocks("div.empty") = {}
                 /\ CellBlocks("div.counts") = {1}
                 /\ cell[1] = [tag |-> "div.counts", added |-> Len(diff_tuple.added),
                               upgraded |-> Len(diff_tuple.upgraded),
                               downgraded |-> Len(diff_tuple.downgraded),
                               removed |-> Len(diff_tuple.removed)]
                 /\ Len(sample) <= 2 * (show_limit \div 2)
                 /\ IF sample = <<>> THEN CellBlocks("ul") = {}
                    ELSE CellBlocks("ul") = {2} /\ cell[2].li = sample
                 /\ IF SomeEntryUnshown
                    THEN /\ CellBlocks("details") = {Len(cell)}
                         /\ cell[Len(cell)].summary = CellTotal
                         /\ FullBreakdown(cell[Len(cell)].body)
                    ELSE CellBlocks("details") = {}
                 /\ Len(cell) = 1 + Cardinality(CellBlocks("ul")) + Cardinality(CellBlocks("details"))

\* C9 witness: an odd limit, more added entries than the sample takes, a
\* cell with the counts line, the sample and the expandable block.
C9_Witness ==
    /\ pc = "cell_done"
    /\ show_limit = 3
    /\ Len(diff_tuple.added) = 2 /\ Len(diff_tuple.upgraded) = 1
    /\ Len(cell) = 3 /\ Len(cell[2].li) = 2

(***************************************************************************)
(* Claims about build_report.                                              *)
(***************************************************************************)
\* s is a rearrangement of t.
IsPermutation(s, t) ==
    /\ Len(s) = Len(t)
    /\ \E f \in [DOMAIN s -> DOMAIN t] :
          /\ \A i, j \in DOMAIN s : i # j => f[i] # f[j]
          /\ \A i \in DOMAIN s : s[i] = t[f[i]]

\* Ascending by (orderingTimestamp, tag).
AscendingByCreatedTag(s) ==
    \A i \in 1..(Len(s) - 1) :
        \/ s[i].created.t < s[i + 1].created.t
        \/ s[i].created.t = s[i + 1].created.t /\ ~StrLt(s[i + 1].tag, s[i].tag)

\* The cells of a finished report are the diffs of adjacent snapshots.
AdjacentDiffs ==
    LET n == Len(entries)
    IN  /\ IsPermutation(sorted_entries, entries)
        /\ AscendingByCreatedTag(sorted_entries)
        /\ n_diffs = 3 * (n - 1)
        /\ Len(rpm_cells) = n /\ Len(pip_cells) = n /\ Len(col_cells) = n
        /\ rpm_cells[1] = <<>> /\ pip_cells[1] = <<>> /\ col_cells[1] = <<>>
        /\ \A i \in 2..n :
              /\ rpm_cells[i] = cell_html(diff_rpms(sorted_entries[i - 1].rpms,
                                                    sorted_entries[i].rpms), 30)
              /\ pip_cells[i] = cell_html(diff_simple_pkgs(sorted_entries[i - 1].pips,
                                                           sorted_entries[i].pips), 30)
              /\ col_cells[i] = cell_html(diff_simple_pkgs(sorted_entries[i - 1].cols,
                                                           sorted_entries[i].cols), 30)

\* C10: build_report, for N >= 1 snapshots, orders them ascending by
\* (orderingTimestamp, tag) and computes exactly 3 x (N-1) diffs, the cell of
\* column i >= 1 being the diff from position i-1 to position i of that
\* ordering and the first column carrying no diff: for every input the
\* report is built, and built so.
C10_AdjacentDiffsForAnySnapshots ==
    /\ pc # "TypeError"
    /\ pc = "report_done" => AdjacentDiffs

\* What holds of build_report: the sort raises exactly when a naive datetime
\* meets an aware one, and a report that is built is as C10 says.
ReportAdjacentWhenSorted ==
    LET mixed == \E i, j \in DOMAIN entries :
                     entries[i].created.aware /\ ~entries[j].created.aware
    IN  /\ pc = "report_done" => AdjacentDiffs
        /\ pc = "TypeError" => mixed
        /\ pc \in {"report_loop", "report_done"} => ~mixed

(***************************************************************************)
(* Claims about the collection reconciler.                                 *)
(***************************************************************************)
\* The candidate map of the i-th source: that of chunk i, empty when the
\* section has no such chunk.  1 is galaxy, 2 filesystem, 3 rpm-derived.
SourceMap(i) ==
    IF i <= Len(col_txt) THEN _colls_from_obj(json_loads_or_empty(col_txt[i])) ELSE <<>>

DictKeys(d) == {d[i].k : i \in DOMAIN d}

\* C1: the merge has exactly one record per key of the three sources (chunks
\* 1..3; a missing, blank or unparseable chunk is an empty map, later chunks
\* are ignored), with the version of the highest-precedence source that
\* defines the key: galaxy, else filesystem, else rpm-derived.
C1_MergePrecedence ==
    pc = "merged" =>
        LET G == SourceMap(1)
            F == SourceMap(2)
            R == SourceMap(3)
            U == DictKeys(G) \cup DictKeys(F) \cup DictKeys(R)
        IN  /\ {cols[i].name : i \in DOMAIN cols} = U
            /\ Len(cols) = Cardinality(U)
            /\ \A i \in DOMAIN cols :
                  cols[i].version =
                     IF DictHas(G, cols[i].name) THEN DictGet(G, cols[i].name)
                     ELSE IF DictHas(F, cols[i].name) THEN DictGet(F, cols[i].name)
                     ELSE DictGet(R, cols[i].name)

\* C1 witness: four chunks, "c.g" defined by all of the first three with
\* different versions and by the ignored fourth, "a.p" by the third only.
C1_Witness ==
    /\ pc = "merged"
    /\ Len(col_txt) = 4
    /\ col_txt[4] = ChunkPool[6]
    /\ DictHas(SourceMap(1), <<99, 46, 103>>) /\ DictHas(SourceMap(2), <<99, 46, 103>>)
    /\ DictHas(SourceMap(3), <<99, 46, 103>>)
    /\ DictGet(SourceMap(1), <<99, 46, 103>>) = <<49, 53>>
    /\ DictGet(SourceMap(2), <<99, 46, 103>>) = <<55>>
    /\ DictGet(SourceMap(3), <<99, 46, 103>>) = <<54>>
    /\ cols = <<Pkg(<<97, 46, 112>>, <<49>>), Pkg(<<99, 46, 103>>, <<49, 53>>)>>

(***************************************************************************)
(* Claims about the parsers, the document builder and the loader.          *)
(***************************************************************************)
Occurrences(s, x) == Cardinality({i \in DOMAIN s : s[i] = x})

\* s and t hold the same records, each as many times.
SameRecords(s, t) ==
    /\ Len(s) = Len(t)
    /\ \A i \in DOMAIN s : Occurrences(s, s[i]) = Occurrences(t, s[i])

TreeBuilt == pc \in {"write", "written", "loaded"}

\* C6: the rpms, pips and cols loaded from the written document are the
\* records given to make_xml, with the same field values (in the document's
\* order); an rpm element without an epoch attribute is read with epoch "".
C6_RoundTrip ==
    pc = "loaded" =>
        /\ SameRecords(snapshot.rpms, rpms)
        /\ SameRecords(snapshot.pips, pips)
        /\ SameRecords(snapshot.cols, cols)
        /\ {<<snapshot.rpms[i].name, snapshot.rpms[i].arch>> : i \in DOMAIN snapshot.rpms}
              = {<<rpms[i].name, rpms[i].arch>> : i \in DOMAIN rpms}
        /\ \A i \in DOMAIN xml_file.rpms :
              ~DictHas(xml_file.rpms[i], "epoch") => snapshot.rpms[i].epoch = <<>>

\* C6 witness: a document with an rpm without epoch and one with, a value
\* that the file must escape, and records that the builder reordered.
C6_Witness ==
    /\ pc = "loaded"
    /\ \E i, j \in DOMAIN rpms : rpms[i].epoch = <<>> /\ rpms[j].epoch # <<>>
    /\ \E i \in DOMAIN rpms : rpms[i].version = <<49, 38, 60>>
    /\ snapshot.rpms # rpms
    /\ snapshot.pips # pips /\ Len(pips) = 3
    /\ Len(cols) = 2

NoTwo(s, same(_, _)) == \A i, j \in DOMAIN s : i # j => ~same(s[i], s[j])

ElName(el) == AttribGet(el, "name")

\* C7, as claimed: in every document built, no two rpm records share
\* (name, arch), no two interpreted-package records share a lowercase
\* name, no two collection records share a lowercase name.
C7_IdentityKeysUnique ==
    TreeBuilt =>
        /\ NoTwo(tree.rpms, LAMBDA a, b : ElName(a) = ElName(b)
                                          /\ AttribGet(a, "arch") = AttribGet(b, "arch"))
        /\ NoTwo(tree.python, LAMBDA a, b : Lower(ElName(a)) = Lower(ElName(b)))
        /\ NoTwo(tree.collections, LAMBDA a, b : Lower(ElName(a)) = Lower(ElName(b)))

\* What the pipeline does keep: in every document built, no two collection
\* records have the same name (compared exactly); the rpm and
\* interpreted-package groups hold one record per record parsed.
CollectionNamesDistinct ==
    TreeBuilt =>
        /\ NoTwo(tree.collections, LAMBDA a, b : ElName(a) = ElName(b))
        /\ \A i \in DOMAIN tree.collections :
              \E k \in 1..Min(3, Len(col_txt)) :
                  DictHas(_colls_from_obj(json_loads_or_empty(col_txt[k])),
                          ElName(tree.collections[i]))
        /\ Len(tree.rpms) = Len(rpms)
        /\ Len(tree.python) = Len(pips)

\* A document with two rpm records of one (name, arch), and two collection
\* records whose names differ only in case.
RepeatedKeysBuilt ==
    /\ TreeBuilt
    /\ ~NoTwo(tree.rpms, LAMBDA a, b : ElName(a) = ElName(b)
                                        /\ AttribGet(a, "arch") = AttribGet(b, "arch"))
    /\ Len(tree.collections) = 2
    /\ ~NoTwo(tree.collections, LAMBDA a, b : Lower(ElName(a)) = Lower(ElName(b)))

\* "bash|0|5.1.8|6.el9|x86_64\nmalformed-line\n"
ScenarioRpmText == JoinLines(<<RpmLinePool[1], RpmLinePool[2]>>)

\* C8: the RPM parser given "bash|0|5.1.8|6.el9|x86_64\nmalformed-line\n"
\* yields exactly one record, with name bash, epoch "", version 5.1.8,
\* release 6.el9, arch x86_64.
C8_ScenarioEpochEmpty ==
    (pc # "parse" /\ rpm_txt = ScenarioRpmText) =>
        rpms = <<Rpm(<<98, 97, 115, 104>>, <<>>, <<53, 46, 49, 46, 56>>,
                     <<54, 46, 101, 108, 57>>, <<120, 56, 54, 95, 54, 52>>)>>

\* What the parser does on that text: one record, the malformed line
\* skipped, the epoch kept as "0".
ScenarioEpochZero ==
    (pc # "parse" /\ rpm_txt = ScenarioRpmText) =>
        rpms = <<Rpm(<<98, 97, 115, 104>>, <<48>>, <<53, 46, 49, 46, 56>>,
                     <<54, 46, 101, 108, 57>>, <<120, 56, 54, 95, 54, 52>>)>>

(***************************************************************************)
(* Claims about main.                                                      *)
(***************************************************************************)
LogOf(ops) == SelectSeq(log, LAMBDA e : e.op \in ops)
ImagesOf(ops) == {log[i].image : i \in {j \in DOMAIN log : log[j].op \in ops}}

Attempts == LogOf({"pull", "pull failed"})

\* The images attempted so far are the first images of the list, in list order.
AttemptedInListOrder ==
    /\ Len(Attempts) <= Len(images)
    /\ \A i \in DOMAIN Attempts : Attempts[i].image = images[i]

\* No document was written for an image whose pull or script failed.
NoDocumentForFailedImage ==
    ImagesOf({"write"}) \cap (ImagesOf({"pull failed"}) \cup ImagesOf({"run failed"})) = {}

\* The batch at its end: every image of the list was attempted, and one
\* document was written for each image whose pull and script succeeded.
BatchComplete ==
    /\ Len(Attempts) = Len(images)
    /\ ImagesOf({"write"}) = ImagesOf({"pull"}) \cap ImagesOf({"run"})
    /\ Len(LogOf({"write"})) = Cardinality(ImagesOf({"write"}))

\* C4: once the loop is entered the run reaches its end whatever pulls and
\* scripts fail; the images are attempted in list order, no document is
\* written for a failed image, and at the end every image was attempted and
\* each image whose pull and script succeeded has its document.
C4_FailuresAreIsolated ==
    /\ [](pc = "pull" => <>(pc = "done"))
    /\ [](AttemptedInListOrder /\ NoDocumentForFailedImage)
    /\ [](pc = "done" => BatchComplete)

\* C4 witness: a finished run of three images: the first pull failed, the
\* script of the second failed, the document of the third was written.
C4_Witness ==
    /\ pc = "done"
    /\ Len(images) = 3
    /\ ImagesOf({"pull failed"}) = {1}
    /\ ImagesOf({"run failed"}) = {2}
    /\ ImagesOf({"write"}) = {3}

\* C5: when the login is attempted and fails, the run is at exit status 1
\* and no image was pulled, inspected, run or removed and no document written.
C5_LoginFailureIsFatal ==
    login = "failed" => pc = "exit1" /\ log = <<>>

\* C5 witness: a failed login of a run that had images to process.
C5_Witness ==
    /\ login = "failed"
    /\ pc = "exit1"
    /\ Len(images) = 3
    /\ args.username

(***************************************************************************)
(* Claims about the removal of images.                                     *)
(***************************************************************************)
Removed == ImagesOf({"rmi"})

\* Every image pulled before position p of the log was removed between its
\* pull and position p.
RemovedBefore(p) ==
    \A q \in 1..(p - 1) :
        log[q].op = "pull" =>
            \E r \in (q + 1)..(p - 1) : log[r] = Event("rmi", log[q].image)

\* C14: without --no-rmi every image whose pull succeeded is removed before
\* the next image is pulled (and before the end of the run), after a failed
\* script as after a written document, once, and an image whose pull failed
\* is never removed; with --no-rmi no image is ever removed.
C14_RemovalPolicy ==
    /\ args.no_rmi => Removed = {}
    /\ Removed \cap ImagesOf({"pull failed"}) = {}
    /\ Len(LogOf({"rmi"})) = Cardinality(Removed)
    /\ ~args.no_rmi =>
          /\ \A p \in DOMAIN log : log[p].op \in {"pull", "pull failed"} => RemovedBefore(p)
          /\ pc \in {"pull", "done"} => RemovedBefore(Len(log) + 1)
          /\ Removed \subseteq ImagesOf({"pull"})

\* C14 witness: a finished run without --no-rmi: the pull of the first image
\* failed, the script of the second failed, the document of the third was
\* written; the second and the third were removed.
C14_Witness ==
    /\ pc = "done"
    /\ ~args.no_rmi
    /\ Len(images) = 3
    /\ ImagesOf({"pull failed"}) = {1}
    /\ ImagesOf({"run failed"}) = {2}
    /\ ImagesOf({"write"}) = {3}
    /\ Removed = {2, 3}

(***************************************************************************)
(* Claims about the order of the records of a document.                    *)
(***************************************************************************)
ElRpmKey(el) ==
    <<ElName(el), AttribGet(el, "arch"), AttribGet(el, "version"), AttribGet(el, "release")>>

RpmsAscending(els) ==
    \A i, j \in DOMAIN els : i < j => ~TupleLt(ElRpmKey(els[j]), ElRpmKey(els[i]))

NamesAscending(els) ==
    \A i, j \in DOMAIN els : i < j => ~StrLt(Lower(ElName(els[j])), Lower(ElName(els[i])))

\* The elements are the elements of the records, each as often as given.
ElementsOf(els, recs, el(_)) ==
    /\ Len(els) = Len(recs)
    /\ \A i \in DOMAIN recs :
          Occurrences(els, el(recs[i])) = Occurrences([k \in DOMAIN recs |-> el(recs[k])], el(recs[i]))

\* C13: in every document built the rpm elements are in ascending order of
\* (name, arch, version, release) and the package and collection elements in
\* ascending order of lowercase name; they are the records given, and the
\* file written is the one the same input gives when built again.
C13_SortedStorage ==
    TreeBuilt =>
        /\ RpmsAscending(tree.rpms)
        /\ NamesAscending(tree.python)
        /\ NamesAscending(tree.collections)
        /\ ElementsOf(tree.rpms, rpms, RpmElement)
        /\ ElementsOf(tree.python, pips, PkgElement)
        /\ ElementsOf(tree.collections, cols, PkgElement)
        /\ \E i \in DOMAIN MetaPool :
              /\ tree = make_xml(ImageRef, MetaPool[i], rpms, pips, cols)
              /\ pc # "write" =>
                    xml_file = WriteXml(make_xml(ImageRef, MetaPool[i], rpms, pips, cols))

\* C13 witness: a written document whose rpm records and package records
\* were parsed in an order that is not the ascending one.
C13_Witness ==
    /\ pc = "written"
    /\ Len(rpms) = 2
    /\ TupleLt(RpmSortKey(rpms[2]), RpmSortKey(rpms[1]))
    /\ Len(pips) = 3
    /\ StrLt(Lower(pips[2].name), Lower(pips[1].name))
    /\ tree.rpms[1] = RpmElement(rpms[2])

(***************************************************************************)
(* Claims about the tag of a snapshot.                                     *)
(***************************************************************************)
\* The part of s after its last c.
AfterLast(s, c) ==
    LET I == {i \in 1..Len(s) : s[i] = c}
    IN  SubSeq(s, (CHOOSE x \in I : \A y \in I : y <= x) + 1, Len(s))

\* The part of s between its first c and the next c (or the end).
AfterFirst(s, c) ==
    LET I    == {i \in 1..Len(s) : s[i] = c}
        a    == CHOOSE x \in I : \A y \in I : x <= y
        J    == {i \in I : i > a}
        b    == IF J = {} THEN Len(s) + 1 ELSE CHOOSE x \in J : \A y \in J : x <= y
    IN  SubSeq(s, a + 1, b - 1)

\* Source 2: the suffix of the first repoTag entry that contains ":".
FromFirstRepoTag(tags) ==
    IF \A i \in DOMAIN tags : ~HasChar(tags[i], 58) THEN <<>>
    ELSE LET i == CHOOSE x \in DOMAIN tags :
                      HasChar(tags[x], 58) /\ \A y \in 1..(x - 1) : ~HasChar(tags[y], 58)
         IN  AfterLast(Strip(tags[i]), 58)

\* Source 3: <tag> of a file name that ends "__<tag>.xml", <tag> without ".".
FromFileName(path) ==
    LET name == LastSegment(path)
        n    == Len(name)
        I    == {i \in 1..(n - 6) : /\ SubSeq(name, i, i + 1) = <<95, 95>>
                                     /\ ~HasChar(SubSeq(name, i + 2, n - 4), 46)}
    IN  IF n >= 7 /\ SubSeq(name, n - 3, n) = DotXml /\ I # {}
        THEN SubSeq(name, (CHOOSE x \in I : \A y \in I : x <= y) + 2, n - 4)
        ELSE <<>>

\* Source 4: the file name without ".xml".
BareStem(path) == SubSeq(LastSegment(path), 1, Len(LastSegment(path)) - 4)

FirstNonEmpty(srcs) ==
    LET I == {i \in DOMAIN srcs : srcs[i] # <<>>}
    IN  srcs[CHOOSE x \in I : \A y \in I : x <= y]

RefSegment(file) == LastSegment(AttribGet(ParseXml(file.content).image, "reference"))

\* The four sources of the claim, source 1 taken after the last ":".
ClaimedSources(file) ==
    << IF HasChar(RefSegment(file), 58) THEN AfterLast(RefSegment(file), 58) ELSE <<>>,
       FromFirstRepoTag(ParseXml(file.content).repoTags),
       FromFileName(file.path),
       BareStem(file.path) >>

\* The four sources, source 1 taken between the first ":" and the next.
CodedSources(file) ==
    [ClaimedSources(file) EXCEPT ![1] =
        IF HasChar(RefSegment(file), 58) THEN AfterFirst(RefSegment(file), 58) ELSE <<>>]

Parsed == pc # "main"

\* C11: the tag of every snapshot is the first non-empty of: the part after
\* the last ":" of the last "/"-segment of reference; the suffix of the first
\* repoTag entry with a ":"; the <tag> of a file name "...__<tag>.xml"; the
\* bare file name stem.
C11_TagPrecedence ==
    Parsed =>
        \A i \in DOMAIN files : entries[i].tag = FirstNonEmpty(ClaimedSources(files[i]))

\* What does hold: the same precedence with source 1 the part of the
\* segment between its first ":" and the next one.
TagPrecedenceFirstColon ==
    Parsed =>
        \A i \in DOMAIN files : entries[i].tag = FirstNonEmpty(CodedSources(files[i]))

\* Every source decides for some file that is drawn.
TagSourcesAllUsed ==
    \A k \in 1..4 : \E r \in DOMAIN ReferencePool, t \in DOMAIN RepoTagsPool, p \in DOMAIN PathPool :
        LET f == File(PathPool[p], ReferencePool[r], RepoTagsPool[t])
        IN  /\ CodedSources(f)[k] # <<>>
            /\ \A j \in 1..(k - 1) : CodedSources(f)[j] = <<>>

(***************************************************************************)
(* Claims about the timestamp of a snapshot.                               *)
(***************************************************************************)
CreatedAttr(file) == AttribGet(ParseXml(file.content).image, "created")

\* The created attribute is absent, empty, or not a timestamp once trimmed.
Unparsed(file) == CreatedAttr(file) = <<>> \/ FromIsoRaises(Trim(CreatedAttr(file)))

\* Every snapshot without a parsed timestamp has the sentinel, and in the
\* order of the report comes before every snapshot with a parsed one.
SentinelFirst ==
    /\ Parsed => \A i \in DOMAIN files : Unparsed(files[i]) => entries[i].created = DatetimeMin
    /\ pc \in {"report_loop", "report_done"} =>
          /\ IsPermutation(sorted_entries, entries)
          /\ \A i, j \in DOMAIN sorted_entries :
                /\ sorted_entries[i].created = DatetimeMin
                /\ sorted_entries[j].created # DatetimeMin
                => i < j

\* C12: whatever the created attributes of the files, neither the
\* derivation of the timestamps nor the ordering of the snapshots raises, and
\* a snapshot whose created is absent or unparseable gets the sentinel and
\* is ordered before every snapshot with a parsed timestamp.
C12_TimestampsNeverFatal ==
    /\ pc # "TypeError"
    /\ SentinelFirst

\* What does hold: build_report raises exactly when a timestamp with a zone
\* meets one without, and the sentinel is given and ordered first otherwise.
TypeErrorOnlyOnMixedZones ==
    /\ SentinelFirst
    /\ pc = "TypeError" =>
          \E i, j \in DOMAIN entries : entries[i].created.aware /\ ~entries[j].created.aware

====
